---- MODULE Spec2Model ----
(***************************************************************************)
(* Node linkage of anytree.node.nodemixin.NodeMixin: the parent setter,    *)
(* the children setter, the children deleter and new_tree, over a fixed    *)
(* population of node objects of two classes (Sub derives from Base); and  *)
(* the pulls of anytree.iterators.ZigZagGroupIter over a tree.             *)
(***************************************************************************)
EXTENDS Integers, Sequences, FiniteSets, TLC

\* Bounds of the model.
NumNodes == 4
MaxLen == 2
NumIterNodes == 4
MaxPulls == 6

Nodes == 1..NumNodes
None == 0

\* The classes of the node objects: every fourth object is of the derived class.
Types == {"Base", "Sub"}
TypeOf(n) == IF n % 4 = 0 THEN "Sub" ELSE "Base"
IsSubclass(t, u) == t = u \/ (t = "Sub" /\ u = "Base")
\* isinstance(n, t)
IsInstance(n, t) == IsSubclass(TypeOf(n), t)

Hooks == {"_pre_detach", "_post_detach", "_pre_attach", "_post_attach"}

VARIABLES parent, children, strict_mode, pre, last, hooks, it

vars == <<parent, children, strict_mode, pre, last, hooks, it>>

----------------------------------------------------------------------------
\* Helpers on sequences.
Occurs(x, s) == \E i \in 1..Len(s) : s[i] = x
Count(x, s) == Cardinality({i \in 1..Len(s) : s[i] = x})
Without(s, x) == SelectSeq(s, LAMBDA c : c # x)

\* An outcome of a call (or of a part of one): the linkage state it leaves,
\* the exception it raised, and what the except clause of the children setter
\* did: "none" (not entered), "restored" (the exception caught is re-raised)
\* or "failed" (the restoring assignment raised, and that exception propagates).
Ok(st) == [st |-> st, err |-> "none", rollback |-> "none"]
Raise(st, e) == [st |-> st, err |-> e, rollback |-> "none"]

\* Sequencing of statements: K runs on the state r leaves unless r raised.
Bind(r, K(_)) == IF r.err # "none" THEN r ELSE K(r.st)

\* try: r / except Exception: K on the state r leaves and the exception.
Catch(r, K(_, _)) == IF r.err = "none" THEN r ELSE K(r.st, r.err)

\* The record of a hook call: the hook, the node it is called on, its argument
\* (the parent, for a per-node hook) and whether the node is linked under that
\* parent at the time of the call.
HookCall(st, name, node, arg) ==
    [hook |-> name, node |-> node, arg |-> arg,
     linked |-> (arg # None /\ st.parent[node] = arg /\ Occurs(node, st.children[arg]))]

\* A hook call: recorded in the log; the hook named veto is overridden to raise.
Hook(st, name, node, arg, veto) ==
    IF veto = name
    THEN Raise([st EXCEPT !.log = Append(@, HookCall(st, name, node, arg))], "HookError")
    ELSE Ok([st EXCEPT !.log = Append(@, HookCall(st, name, node, arg))])

\* node, node.parent, ..., root
RECURSIVE iter_path_reverse(_, _)
iter_path_reverse(par, node) ==
    IF node = None THEN <<>>
    ELSE <<node>> \o iter_path_reverse(par, par[node])

\* __check_loop rejecting an ancestor of self as well as a descendant.
check_loop_both_ways(st, self, node) ==
    IF node = None THEN Ok(st)
    ELSE IF node = self THEN Raise(st, "LoopError")
    ELSE IF \/ Occurs(self, iter_path_reverse(st.parent, node))
            \/ Occurs(node, iter_path_reverse(st.parent, self))
         THEN Raise(st, "LoopError")
    ELSE Ok(st)

__check_loop(st, self, node) ==
    IF node = None THEN Ok(st)
    ELSE IF node = self THEN Raise(st, "LoopError")
    ELSE IF Occurs(self, iter_path_reverse(st.parent, node)) THEN Raise(st, "LoopError")
    ELSE Ok(st)

\* __detach clearing self.parent but leaving self in the old parent's list.
detach_keeps_child(st, self, par, veto) ==
    IF par = None THEN Ok(st)
    ELSE Bind(Hook(st, "_pre_detach", self, par, veto), LAMBDA s1 :
             IF ~Occurs(self, s1.children[par])
             THEN Raise(s1, "AssertionError")
             ELSE Hook([s1 EXCEPT !.parent[self] = None],
                       "_post_detach", self, par, veto))

__detach(st, self, par, veto) ==
    IF par = None THEN Ok(st)
    ELSE Bind(Hook(st, "_pre_detach", self, par, veto), LAMBDA s1 :
             IF ~Occurs(self, s1.children[par])
             THEN Raise(s1, "AssertionError")
             ELSE Hook([s1 EXCEPT !.children[par] = Without(@, self),
                                  !.parent[self] = None],
                       "_post_detach", self, par, veto))

\* __attach that appends the node to the children of its new parent and leaves
\* the node's own parent reference as it was.
attach_no_backref(st, self, par, veto) ==
    IF par = None THEN Ok(st)
    ELSE Ok([st EXCEPT !.children[par] = Append(@, self)])

\* __attach inserting self at the front of the parent's list.
attach_prepends(st, self, par, veto) ==
    IF par = None THEN Ok(st)
    ELSE Bind(Hook(st, "_pre_attach", self, par, veto), LAMBDA s1 :
             IF s1.strict /\ Occurs(self, s1.children[par])
             THEN Raise(s1, "AssertionError")
             ELSE Hook([s1 EXCEPT !.children[par] = <<self>> \o @,
                                  !.parent[self] = par],
                       "_post_attach", self, par, veto))

__attach(st, self, par, veto) ==
    IF par = None THEN Ok(st)
    ELSE Bind(Hook(st, "_pre_attach", self, par, veto), LAMBDA s1 :
             IF s1.strict /\ Occurs(self, s1.children[par])
             THEN Raise(s1, "AssertionError")
             ELSE Hook([s1 EXCEPT !.children[par] = Append(@, self),
                                  !.parent[self] = par],
                       "_post_attach", self, par, veto))

\* The parent setter without the test "parent is not value".
parent_setter_unguarded(st, self, value, veto) ==
    IF value # None /\ ~IsInstance(value, TypeOf(self))
    THEN Raise(st, "TreeError")
    ELSE Bind(__check_loop(st, self, value), LAMBDA s1 :
         Bind(__detach(s1, self, st.parent[self], veto), LAMBDA s2 :
              __attach(s2, self, value, veto)))

\* self.parent = value
parent_setter(st, self, value, veto) ==
    IF value # None /\ ~IsInstance(value, TypeOf(self))
    THEN Raise(st, "TreeError")
    ELSE IF st.parent[self] = value THEN Ok(st)
    ELSE Bind(__check_loop(st, self, value), LAMBDA s1 :
         Bind(__detach(s1, self, st.parent[self], veto), LAMBDA s2 :
              __attach(s2, self, value, veto)))

\* __check_children on the candidates from index i on, seen holding the earlier ones.
RECURSIVE __check_children(_, _, _, _, _)
__check_children(st, cls, cs, i, seen) ==
    IF i > Len(cs) THEN Ok(st)
    ELSE IF ~IsInstance(cs[i], cls) THEN Raise(st, "TreeError")
    ELSE IF cs[i] \in seen THEN Raise(st, "TreeError")
    ELSE __check_children(st, cls, cs, i + 1, seen \cup {cs[i]})

\* for child in cs[i..]: child.parent = value, stopping at the first exception
RECURSIVE set_parent_each(_, _, _, _, _)
set_parent_each(st, cs, i, value, veto) ==
    IF i > Len(cs) THEN Ok(st)
    ELSE Bind(parent_setter(st, cs[i], value, veto), LAMBDA s1 :
              set_parent_each(s1, cs, i + 1, value, veto))

\* The deleter leaving the first child attached.
deleter_keeps_first(st, self, veto) ==
    Bind(Hook(st, "_pre_detach_children", self, None, veto), LAMBDA s1 :
    Bind(set_parent_each(s1, st.children[self], 2, None, veto), LAMBDA s2 :
         IF Len(s2.children[self]) # 0 THEN Raise(s2, "AssertionError")
         ELSE Hook(s2, "_post_detach_children", self, None, veto)))

\* del self.children
children_deleter(st, self, veto) ==
    Bind(Hook(st, "_pre_detach_children", self, None, veto), LAMBDA s1 :
    Bind(set_parent_each(s1, st.children[self], 1, None, veto), LAMBDA s2 :
         IF Len(s2.children[self]) # 0 THEN Raise(s2, "AssertionError")
         ELSE Hook(s2, "_post_detach_children", self, None, veto)))

\* The try body calling _pre_attach_children after the attachments.
attach_children_late_pre(st, self, cs, veto) ==
    Bind(set_parent_each(st, cs, 1, self, veto), LAMBDA s1 :
    Bind(Hook(s1, "_pre_attach_children", self, None, veto), LAMBDA s2 :
    Bind(Hook(s2, "_post_attach_children", self, None, veto), LAMBDA s3 :
         IF Len(s3.children[self]) # Len(cs) THEN Raise(s3, "AssertionError")
         ELSE Ok(s3))))

\* The body of the try statement of the children setter.
attach_children(st, self, cs, veto) ==
    Bind(Hook(st, "_pre_attach_children", self, None, veto), LAMBDA s1 :
    Bind(set_parent_each(s1, cs, 1, self, veto), LAMBDA s2 :
    Bind(Hook(s2, "_post_attach_children", self, None, veto), LAMBDA s3 :
         IF Len(s3.children[self]) # Len(cs) THEN Raise(s3, "AssertionError")
         ELSE Ok(s3))))

\* The end of the except clause: r is the outcome of self.children = old_children,
\* e the exception caught; the exception of a failed restore propagates
\* instead of e.
except_raise(r, e) ==
    IF r.err # "none"
    THEN [st |-> r.st, err |-> r.err, rollback |-> "failed"]
    ELSE [st |-> r.st, err |-> e, rollback |-> "restored"]

\* self.children = cs
RECURSIVE children_setter(_, _, _, _)
children_setter(st, self, cs, veto) ==
    Bind(__check_children(st, TypeOf(self), cs, 1, {}), LAMBDA s0 :
    Bind(children_deleter(s0, self, veto), LAMBDA s1 :
         Catch(attach_children(s1, self, cs, veto), LAMBDA s2, e :
               except_raise(children_setter(s2, self, st.children[self], veto), e))))

\* Sequencing on a call that returns a value: K runs on the state and the value.
BindRet(r, K(_, _)) == IF r.err # "none" THEN r ELSE K(r.st, r.ret)

Return(st, v) == [st |-> st, err |-> "none", rollback |-> "none", ret |-> v]

Reverse(s) == [i \in 1..Len(s) |-> s[Len(s) + 1 - i]]

RECURSIVE new_tree(_, _, _, _)
RECURSIVE copy_each(_, _, _, _, _, _)

\* new_tree walking the children of the source node from the last to the first.
new_tree_backwards(st, node, copy_info, strict) ==
    copy_each(st, Reverse(st.children[node]), 1, copy_info[node], copy_info, strict)

\* cls.new_tree(node, copy_info, strict_mode): copy_info is the callback, given
\* as the node it returns for each source node; st.strict is cls.strict_mode.
new_tree(st, node, copy_info, strict) ==
    copy_each(st, st.children[node], 1, copy_info[node], copy_info, strict)

\* The loop of new_tree over the children cs[i..] of the source node.
copy_each(st, cs, i, new_node, copy_info, strict) ==
    IF i > Len(cs) THEN Return(st, new_node)
    ELSE BindRet(new_tree(st, cs[i], copy_info, FALSE), LAMBDA s1, new_c :
         Bind(parent_setter([s1 EXCEPT !.strict = strict], new_c, new_node, "none"),
              LAMBDA s2 :
                  copy_each([s2 EXCEPT !.strict = TRUE],
                            cs, i + 1, new_node, copy_info, strict)))

----------------------------------------------------------------------------
\* Queries.
\* depth counting the nodes of the path instead of the hops.
depth_from_one(par, self) == Len(iter_path_reverse(par, self))

depth(par, self) == Len(iter_path_reverse(par, self)) - 1

Max(S) == CHOOSE m \in S : \A k \in S : k <= m

RECURSIVE height(_, _)
height(chl, self) ==
    IF Len(chl[self]) # 0
    THEN Max({height(chl, chl[self][i]) : i \in 1..Len(chl[self])}) + 1
    ELSE 0

RECURSIVE root(_, _)
root(par, self) == IF par[self] # None THEN root(par, par[self]) ELSE self

----------------------------------------------------------------------------
\* Traversal iterators.  A predicate (filter_, stop) is given by its outcome on
\* each node: "T", "F" or "raise".  maxlevel is <<>> for None and <<m>> for m.
\* An iterator object holds its arguments, the field __iter ("None" until the
\* first pull, then "gen") and the state of its generator: where it is
\* suspended (pc), its local variables children and level, and for the
\* zig-zag generator its local iterator _iter (inner, <<>> until created).
NoGen == [pc |-> "none", children |-> <<>>, level |-> 0, inner |-> <<>>]

\* AbstractIter.__init__
NewIter(node, filter_, stop, maxlevel) ==
    [node |-> node, filter_ |-> filter_, stop |-> stop, maxlevel |-> maxlevel,
     iter |-> "None", gen |-> NoGen]

\* The three outcomes of a pull: an element, StopIteration, the predicate's
\* exception.
Yielded(obj, group) == [obj |-> obj, res |-> "yield", group |-> group]
StopIteration(obj) == [obj |-> obj, res |-> "stop", group |-> <<>>]
Raised(obj) == [obj |-> obj, res |-> "raise", group |-> <<>>]

Finished(obj) == [obj EXCEPT !.gen.pc = "done"]

\* _abort_at_level that also aborts at the level equal to maxlevel.
abort_at_maxlevel(level, maxlevel) == maxlevel # <<>> /\ level >= maxlevel[1]

_abort_at_level(level, maxlevel) == maxlevel # <<>> /\ level > maxlevel[1]

PredRaises(nodes, pred) == \E i \in 1..Len(nodes) : pred[nodes[i]] = "raise"

\* _get_children that keeps the children for which stop is true.
get_children_keeps_stopped(chn, stop) ==
    IF PredRaises(chn, stop) THEN [err |-> "PredError", val |-> <<>>]
    ELSE [err |-> "none", val |-> chn]

_get_children(chn, stop) ==
    IF PredRaises(chn, stop) THEN [err |-> "PredError", val |-> <<>>]
    ELSE [err |-> "none", val |-> SelectSeq(chn, LAMBDA child : stop[child] = "F")]

\* AbstractIter.__init: the list of children handed to the generator.
__init(obj) ==
    IF _abort_at_level(1, obj.maxlevel) THEN [err |-> "none", val |-> <<>>]
    ELSE _get_children(<<obj.node>>, obj.stop)

\* The level-grouped walk, LevelOrderGroupIter.  Its children of the next
\* level: the children of every node of this level, subject to stop.
RECURSIVE _get_grandchildren(_, _, _, _)
_get_grandchildren(chl, chn, i, stop) ==
    IF i > Len(chn) THEN [err |-> "none", val |-> <<>>]
    ELSE LET head == _get_children(chl[chn[i]], stop)
             tail == _get_grandchildren(chl, chn, i + 1, stop)
         IN  IF head.err # "none" \/ tail.err # "none"
             THEN [err |-> "PredError", val |-> <<>>]
             ELSE [err |-> "none", val |-> head.val \o tail.val]

\* The loop of the level-grouped walk at "while children": one tuple per
\* level, holding the nodes of the level that pass filter_.
yield_level(obj) ==
    IF obj.gen.children = <<>> THEN StopIteration(Finished(obj))
    ELSE IF PredRaises(obj.gen.children, obj.filter_) THEN Raised(Finished(obj))
    ELSE Yielded([obj EXCEPT !.gen.pc = "suspended"],
                 SelectSeq(obj.gen.children, LAMBDA child : obj.filter_[child] = "T"))

\* One resumption of the generator of the level-grouped walk.
LevelOrderGroupIter_iter(obj, chl) ==
    CASE obj.gen.pc = "start" -> yield_level([obj EXCEPT !.gen.level = 1])
      [] obj.gen.pc = "suspended" ->
             IF _abort_at_level(obj.gen.level + 1, obj.maxlevel)
             THEN StopIteration(Finished(obj))
             ELSE LET next == _get_grandchildren(chl, obj.gen.children, 1, obj.stop)
                  IN  IF next.err # "none" THEN Raised(Finished(obj))
                      ELSE yield_level([obj EXCEPT !.gen.level = @ + 1,
                                                   !.gen.children = next.val])
      [] OTHER -> StopIteration(obj)

RECURSIVE __next__(_, _, _)
RECURSIVE ZigZagGroupIter_iter(_, _)

\* __next__ that creates the generator anew when the last one has finished.
next_restarts(obj, chl, cls) ==
    LET resume(o) == IF cls = "ZigZagGroupIter" THEN ZigZagGroupIter_iter(o, chl)
                     ELSE LevelOrderGroupIter_iter(o, chl)
    IN  IF obj.iter = "None" \/ obj.gen.pc = "done"
        THEN LET c == __init(obj)
             IN  IF c.err # "none" THEN Raised(obj)
                 ELSE resume([obj EXCEPT !.iter = "gen",
                                         !.gen = [NoGen EXCEPT !.pc = "start",
                                                               !.children = c.val]])
        ELSE resume(obj)

\* AbstractIter.__next__ of an iterator of class cls over the tree chl.
__next__(obj, chl, cls) ==
    LET resume(o) == IF cls = "ZigZagGroupIter" THEN ZigZagGroupIter_iter(o, chl)
                     ELSE LevelOrderGroupIter_iter(o, chl)
    IN  IF obj.iter = "None"
        THEN LET c == __init(obj)
             IN  IF c.err # "none" THEN Raised(obj)
                 ELSE resume([obj EXCEPT !.iter = "gen",
                                         !.gen = [NoGen EXCEPT !.pc = "start",
                                                               !.children = c.val]])
        ELSE resume(obj)

\* yield next(_iter), or yield tuple(reversed(next(_iter))) when rev, inside
\* try ... except StopIteration: break.
yield_next(obj, chl, rev) ==
    LET r == __next__(obj.gen.inner[1], chl, "LevelOrderGroupIter")
        o == [obj EXCEPT !.gen.inner = <<r.obj>>]
    IN  CASE r.res = "yield" ->
                 Yielded([o EXCEPT !.gen.pc = IF rev THEN "second" ELSE "first"],
                         IF rev THEN Reverse(r.group) ELSE r.group)
          [] r.res = "stop" -> StopIteration(Finished(o))
          [] OTHER -> Raised(Finished(o))

\* ZigZagGroupIter._iter reversing the first tuple of each pair.
zigzag_reverses_first(obj, chl) ==
    CASE obj.gen.pc = "start" ->
             IF obj.gen.children = <<>> THEN StopIteration(Finished(obj))
             ELSE IF Len(obj.gen.children) # 1 THEN Raised(Finished(obj))
             ELSE yield_next([obj EXCEPT !.gen.inner =
                                  <<NewIter(obj.gen.children[1], obj.filter_,
                                            obj.stop, obj.maxlevel)>>],
                             chl, TRUE)
      [] obj.gen.pc = "first" -> yield_next(obj, chl, FALSE)
      [] obj.gen.pc = "second" -> yield_next(obj, chl, TRUE)
      [] OTHER -> StopIteration(obj)

\* One resumption of the generator ZigZagGroupIter._iter: at its start, after
\* the first yield of the loop body ("first") or after the second ("second").
ZigZagGroupIter_iter(obj, chl) ==
    CASE obj.gen.pc = "start" ->
             IF obj.gen.children = <<>> THEN StopIteration(Finished(obj))
             ELSE IF Len(obj.gen.children) # 1 THEN Raised(Finished(obj))
             ELSE yield_next([obj EXCEPT !.gen.inner =
                                  <<NewIter(obj.gen.children[1], obj.filter_,
                                            obj.stop, obj.maxlevel)>>],
                             chl, FALSE)
      [] obj.gen.pc = "first" -> yield_next(obj, chl, TRUE)
      [] obj.gen.pc = "second" -> yield_next(obj, chl, FALSE)
      [] OTHER -> StopIteration(obj)

\* list(iterator): the elements up to the end of the sequence or an exception.
RECURSIVE Drain(_, _, _, _)
Drain(obj, chl, cls, acc) ==
    LET r == __next__(obj, chl, cls)
    IN  IF r.res = "yield" THEN Drain(r.obj, chl, cls, Append(acc, r.group))
        ELSE [groups |-> acc, end |-> r.res]

----------------------------------------------------------------------------
\* The state machine: each action is one call of the public interface.
Cur == [parent |-> parent, children |-> children, strict |-> strict_mode, log |-> <<>>]
Snapshot == [parent |-> parent, children |-> children, strict |-> strict_mode]

RECURSIVE SeqsUpTo(_, _)
SeqsUpTo(S, n) ==
    IF n = 0 THEN {<<>>}
    ELSE LET shorter == SeqsUpTo(S, n - 1)
         IN  shorter \cup {Append(s, x) : s \in shorter, x \in S}

Inputs == SeqsUpTo(Nodes, MaxLen)

\* last names the call that has just ended (its arguments and the exception
\* it raised), pre the linkage it started from and hooks the hook calls it
\* made; NoCall when the client is between two calls.
NoCall == [op |-> "none", node |-> None, value |-> None, cs |-> <<>>,
           veto |-> "none", err |-> "none", rollback |-> "none"]

\* No traversal iterator has been constructed.
NoIter == [phase |-> "none"]

Init ==
    /\ parent = [n \in Nodes |-> None]
    /\ children = [n \in Nodes |-> <<>>]
    /\ strict_mode = TRUE
    /\ pre = [parent |-> [n \in Nodes |-> None], children |-> [n \in Nodes |-> <<>>],
              strict |-> TRUE]
    /\ last = NoCall
    /\ hooks = <<>>
    /\ it = NoIter

\* x.parent = v, the hooks being the no-ops of NodeMixin
SetParent ==
    /\ last = NoCall
    /\ \E x \in Nodes, v \in Nodes \cup {None} :
           \E r \in {parent_setter(Cur, x, v, "none")} :
               /\ parent' = r.st.parent
               /\ children' = r.st.children
               /\ hooks' = r.st.log
               /\ last' = [op |-> "set_parent", node |-> x, value |-> v,
                           cs |-> <<>>, veto |-> "none",
                           err |-> r.err, rollback |-> r.rollback]
    /\ pre' = Snapshot
    /\ UNCHANGED <<strict_mode, it>>

\* x.parent = v on nodes of a subclass whose hook h raises to veto the change
SetParentVeto ==
    /\ last = NoCall
    /\ \E x \in Nodes, v \in Nodes \cup {None}, h \in Hooks :
           \E r \in {parent_setter(Cur, x, v, h)} :
               /\ parent' = r.st.parent
               /\ children' = r.st.children
               /\ hooks' = r.st.log
               /\ last' = [op |-> "set_parent", node |-> x, value |-> v,
                           cs |-> <<>>, veto |-> h,
                           err |-> r.err, rollback |-> r.rollback]
    /\ pre' = Snapshot
    /\ UNCHANGED <<strict_mode, it>>

\* p.children = cs
SetChildren ==
    /\ last = NoCall
    /\ \E p \in Nodes, cs \in Inputs :
           \E r \in {children_setter(Cur, p, cs, "none")} :
               /\ parent' = r.st.parent
               /\ children' = r.st.children
               /\ hooks' = r.st.log
               /\ last' = [op |-> "set_children", node |-> p, value |-> None,
                           cs |-> cs, veto |-> "none",
                           err |-> r.err, rollback |-> r.rollback]
    /\ pre' = Snapshot
    /\ UNCHANGED <<strict_mode, it>>

\* del p.children
DelChildren ==
    /\ last = NoCall
    /\ \E p \in Nodes :
           \E r \in {children_deleter(Cur, p, "none")} :
               /\ parent' = r.st.parent
               /\ children' = r.st.children
               /\ hooks' = r.st.log
               /\ last' = [op |-> "del_children", node |-> p, value |-> None,
                           cs |-> <<>>, veto |-> "none",
                           err |-> r.err, rollback |-> r.rollback]
    /\ pre' = Snapshot
    /\ UNCHANGED <<strict_mode, it>>

\* The client goes on after a call: the record of the call is dropped.
Resume ==
    /\ last # NoCall
    /\ last' = NoCall
    /\ pre' = Snapshot
    /\ hooks' = <<>>
    /\ UNCHANGED <<parent, children, strict_mode, it>>

\* The node reached from n by following k parent references.
RECURSIVE Up(_, _, _)
Up(par, n, k) == IF k = 0 \/ n = None THEN n ELSE Up(par, par[n], k - 1)

\* The nodes of the subtree rooted at n, read off the children lists.
RECURSIVE Subtree(_, _)
Subtree(chl, n) ==
    {n} \cup UNION {Subtree(chl, chl[n][i]) : i \in 1..Len(chl[n])}

\* The callbacks passed as copy_info: one that returns the source node itself,
\* those that return one and the same node for every source node, and those
\* that return another existing node for each source node.
CopyInfos ==
    {[n \in Nodes |-> n]}
        \cup {[n \in Nodes |-> c] : c \in Nodes}
        \cup {[n \in Nodes |-> ((n + k - 1) % NumNodes) + 1] : k \in 1..(NumNodes - 1)}

\* NodeMixin.new_tree(node, copy_info, strict)
NewTree ==
    /\ last = NoCall
    /\ \E node \in Nodes, copy_info \in CopyInfos, strict \in BOOLEAN :
           \E r \in {new_tree(Cur, node, copy_info, strict)} :
               /\ parent' = r.st.parent
               /\ children' = r.st.children
               /\ strict_mode' = r.st.strict
               /\ hooks' = r.st.log
               /\ last' = [op |-> "new_tree", node |-> node,
                           value |-> IF r.err = "none" THEN r.ret ELSE None,
                           cs |-> copy_info, veto |-> "none",
                           err |-> r.err, rollback |-> "none"]
    /\ pre' = Snapshot
    /\ UNCHANGED it

Next == SetParent \/ SetChildren \/ DelChildren \/ Resume

Spec == Init /\ [][Next]_vars

\* Nodes of a subclass whose per-node hooks may raise to veto a change.
NextVeto == SetParent \/ SetParentVeto \/ SetChildren \/ DelChildren \/ Resume

SpecVeto == Init /\ [][NextVeto]_vars

\* The nodes a well-behaved copy_info callback creates: the copy of source node
\* n is node n + CopyBase, of the same class as n and attached to nothing.
CopyBase == 4 * ((NumNodes + 3) \div 4)

AllNodes == 1..(CopyBase + NumNodes)

copy_of == [n \in Nodes |-> n + CopyBase]

RECURSIVE Ascending(_)
Ascending(S) ==
    IF S = {} THEN <<>>
    ELSE LET m == CHOOSE x \in S : \A y \in S : x <= y
         IN  <<m>> \o Ascending(S \ {m})

\* The parent links the parent setter accepts between the source nodes.
SourceForests ==
    {par \in [Nodes -> Nodes \cup {None}] :
        /\ \A n \in Nodes : par[n] # None => IsInstance(par[n], TypeOf(n))
        /\ \A n \in Nodes : Up(par, n, NumNodes) = None}

\* A forest of source nodes as parent assignments build it, the children of
\* each node in ascending or in descending order of attachment, and the nodes
\* copy_info will create.
InitCopy ==
    /\ \E par \in SourceForests, descending \in BOOLEAN :
           /\ parent = [n \in AllNodes |-> IF n \in Nodes THEN par[n] ELSE None]
           /\ children = [n \in AllNodes |->
                             LET cs == Ascending({c \in Nodes : par[c] = n})
                             IN  IF descending THEN Reverse(cs) ELSE cs]
    /\ strict_mode = TRUE
    /\ pre = [parent |-> parent, children |-> children, strict |-> TRUE]
    /\ last = NoCall
    /\ hooks = <<>>
    /\ it = NoIter

Isolated(par, chl, n) == par[n] = None /\ chl[n] = <<>>

\* NodeMixin.new_tree(node, copy_info, strict) with a copy_info that creates a
\* new node for each source node.
NewTreeCopy ==
    /\ last = NoCall
    /\ \E node \in Nodes, strict \in BOOLEAN :
           /\ \A n \in Subtree(children, node) : Isolated(parent, children, copy_of[n])
           /\ \E r \in {new_tree(Cur, node, copy_of, strict)} :
                  /\ parent' = r.st.parent
                  /\ children' = r.st.children
                  /\ strict_mode' = r.st.strict
                  /\ hooks' = r.st.log
                  /\ last' = [op |-> "new_tree", node |-> node,
                              value |-> IF r.err = "none" THEN r.ret ELSE None,
                              cs |-> copy_of, veto |-> "none",
                              err |-> r.err, rollback |-> "none"]
    /\ pre' = Snapshot
    /\ UNCHANGED it

NextCopy == NewTreeCopy \/ Resume

SpecCopy == InitCopy /\ [][NextCopy]_vars

\* The trees walked: every tree over the nodes 1..NumIterNodes with root 1 in
\* which a parent was created before its children, and the tree of the
\* documentation of ZigZagGroupIter (f = 1, b = 2, a = 3, d = 4, c = 5, e = 6,
\* g = 7, i = 8, h = 9).
IterNodes == 1..NumIterNodes

IterTrees ==
    {par \in [IterNodes -> 0..NumIterNodes] :
        /\ par[1] = None
        /\ \A n \in IterNodes \ {1} : par[n] \in 1..(n - 1)}

DocParent == <<0, 1, 2, 2, 4, 4, 1, 7, 8>>
DocChildren == <<<<2, 7>>, <<3, 4>>, <<>>, <<5, 6>>, <<>>, <<>>, <<8>>, <<9>>, <<>>>>

InitIter ==
    /\ \/ \E par \in IterTrees, descending \in BOOLEAN :
              /\ parent = par
              /\ children = [n \in IterNodes |->
                                LET cs == Ascending({c \in IterNodes : par[c] = n})
                                IN  IF descending THEN Reverse(cs) ELSE cs]
       \/ parent = DocParent /\ children = DocChildren
    /\ strict_mode = TRUE
    /\ pre = [parent |-> parent, children |-> children, strict |-> TRUE]
    /\ last = NoCall
    /\ hooks = <<>>
    /\ it = NoIter

\* The predicates passed: one outcome for every node, or another outcome for
\* one node.
Preds(S, usual, other) ==
    {[n \in S |-> usual]}
        \cup {[n \in S |-> IF n = x THEN o ELSE usual] : x \in S, o \in other}

\* filter_=lambda n: n.name not in "eg" and stop=lambda n: n.name == "d"
DocFilter == [n \in 1..9 |-> IF n \in {6, 7} THEN "F" ELSE "T"]
DocStop == [n \in 1..9 |-> IF n = 4 THEN "T" ELSE "F"]

Filters == IF children = DocChildren THEN {[n \in 1..9 |-> "T"], DocFilter}
           ELSE Preds(DOMAIN children, "T", {"F", "raise"})
Stops == IF children = DocChildren THEN {[n \in 1..9 |-> "F"], DocStop}
         ELSE Preds(DOMAIN children, "F", {"T", "raise"})
MaxLevels == IF children = DocChildren THEN {<<>>, <<3>>}
             ELSE {<<>>} \cup {<<m>> : m \in (0 - 1)..NumIterNodes}

\* ZigZagGroupIter(root, filter_, stop, maxlevel)
Construct ==
    /\ it = NoIter
    /\ \E filter_ \in Filters, stop \in Stops, maxlevel \in MaxLevels :
           it' = [phase |-> "iter", obj |-> NewIter(1, filter_, stop, maxlevel),
                  out |-> <<>>, results |-> <<>>]
    /\ UNCHANGED <<parent, children, strict_mode, pre, last, hooks>>

\* next(iterator): out collects the tuples yielded, results the outcome of
\* every pull.
Pull ==
    /\ it.phase = "iter"
    /\ Len(it.results) < MaxPulls
    /\ \E r \in {__next__(it.obj, children, "ZigZagGroupIter")} :
           it' = [it EXCEPT !.obj = r.obj,
                            !.results = Append(@, r.res),
                            !.out = IF r.res = "yield" THEN Append(@, r.group) ELSE @]
    /\ UNCHANGED <<parent, children, strict_mode, pre, last, hooks>>

NextIter == Construct \/ Pull

SpecIter == InitIter /\ [][NextIter]_vars

\* Parent and children assignments, children deletions and new_tree calls.
NextAll == SetParent \/ SetChildren \/ DelChildren \/ NewTree \/ Resume

SpecAll == Init /\ [][NextAll]_vars

----------------------------------------------------------------------------
\* Vocabulary of the properties.
\* a is a proper ancestor of b
IsAncestor(chl, a, b) == a # b /\ b \in Subtree(chl, a)

Unchanged == parent = pre.parent /\ children = pre.children

LinkedTo(x, n) == parent[x] = n /\ Occurs(x, children[n])

ParentCall == last.op = "set_parent"
ChildrenCall == last.op = "set_children"

\* C1: for any node a and any node b in a's subtree (b = a included), the
\* assignment a.parent = b raises LoopError and leaves every node's parent
\* and every node's children sequence as they were.
C1_LoopErrorInSubtree ==
    (ParentCall /\ last.value # None /\ last.value \in Subtree(pre.children, last.node))
        => (last.err = "LoopError" /\ Unchanged)

\* C2: after a successful x.parent = p (p not None, hooks no-ops) x occurs in
\* p.children exactly once, x.parent is p, and x no longer occurs in the
\* children sequence of the parent it had before, if that was another node.
C2_SingleOwnership ==
    (ParentCall /\ last.err = "none" /\ last.value # None /\ last.veto = "none")
        => LET x == last.node
               p == last.value
               o == pre.parent[x]
           IN  /\ Count(x, children[p]) = 1
               /\ parent[x] = p
               /\ (o # None /\ o # p) => ~Occurs(x, children[o])

C2_Witness ==
    /\ ParentCall /\ last.err = "none" /\ last.value # None
    /\ pre.parent[last.node] # None
    /\ pre.parent[last.node] # last.value
    /\ Len(pre.children[pre.parent[last.node]]) >= 2

\* C3: when p.children = s succeeds, p.children reads back as s in the same
\* order, has the length of s, and every element of s has parent p.
C3_RoundTripChildren ==
    (ChildrenCall /\ last.err = "none")
        => /\ children[last.node] = last.cs
           /\ Len(children[last.node]) = Len(last.cs)
           /\ \A i \in 1..Len(last.cs) : parent[last.cs[i]] = last.node

\* A successful assignment of two children, one taken from another parent
\* and one that was already a child of p.
C3_Witness ==
    /\ ChildrenCall /\ last.err = "none" /\ Len(last.cs) = 2
    /\ pre.parent[last.cs[1]] # None /\ pre.parent[last.cs[1]] # last.node
    /\ pre.parent[last.cs[2]] = last.node

\* C4: whenever p.children = s raises (hooks no-ops), p.children equals the
\* sequence p had before, each of those old children has parent p, and the
\* exception raised is the original failure.
C4_FailedAssignmentRestoresChildren ==
    (ChildrenCall /\ last.err # "none")
        => /\ children[last.node] = pre.children[last.node]
           /\ \A i \in 1..Len(pre.children[last.node]) :
                  parent[pre.children[last.node][i]] = last.node
           /\ last.rollback # "failed"

\* C5: when p.children = s fails after elements of s were attached to p, the
\* whole forest is back in its state before the assignment: every node's
\* parent and every node's children sequence.
C5_FailedAssignmentRestoresForest ==
    (ChildrenCall /\ last.err # "none" /\ last.rollback = "restored") => Unchanged

\* C6: x.parent = q on a node x with old parent o never ends, returning or
\* raising (a hook may raise to veto), with x linked neither to o nor to q.
C6_NeverHalfDetached ==
    (ParentCall /\ last.value # None /\ pre.parent[last.node] # None)
        => \/ LinkedTo(last.node, pre.parent[last.node])
           \/ LinkedTo(last.node, last.value)

\* C7 as stated: b.parent = a with a already an ancestor of b fails with
\* LoopError and leaves the tree unchanged.
C7_AncestorAsParentLoops ==
    (ParentCall /\ last.value # None /\ IsAncestor(pre.children, last.value, last.node))
        => (last.err = "LoopError" /\ Unchanged)

\* C7 amended: b.parent = a with a already an ancestor of b raises nothing;
\* afterwards b.parent is a and b occurs once in a.children, as the last
\* child if a was not b's parent, and with nothing changed if it was.
C7_AncestorAsParentSucceeds ==
    (ParentCall /\ last.value # None /\ IsAncestor(pre.children, last.value, last.node))
        => LET b == last.node
               a == last.value
           IN  /\ last.err = "none"
               /\ parent[b] = a
               /\ Count(b, children[a]) = 1
               /\ IF pre.parent[b] = a THEN Unchanged
                  ELSE children[a] = Append(pre.children[a], b)

\* b is moved up to its grandparent (or higher).
C7_Witness ==
    /\ ParentCall /\ last.value # None
    /\ IsAncestor(pre.children, last.value, last.node)
    /\ pre.parent[last.node] # last.value
    /\ parent[last.node] = last.value

\* C8: setting x.parent to the value it already has (its parent, or None for
\* a root) is a no-op: no hook fires, x keeps its position and every node's
\* parent and children sequence are unchanged.
C8_SameParentIsNoOp ==
    (ParentCall /\ last.value = pre.parent[last.node])
        => (last.err = "none" /\ hooks = <<>> /\ Unchanged)

\* x is re-assigned its parent while it is the first of several children.
C8_Witness ==
    /\ ParentCall /\ last.value # None /\ last.value = pre.parent[last.node]
    /\ Len(pre.children[last.value]) >= 2
    /\ pre.children[last.value][1] = last.node

\* C9: x.parent = v with v of another concrete type than x (a subclass of
\* x's type included) fails with the type error and links nothing; hence a
\* node and its parent always have the same concrete type.
C9_TypeHomogeneity ==
    /\ (ParentCall /\ last.value # None /\ TypeOf(last.value) # TypeOf(last.node))
           => (last.err = "TreeError" /\ Unchanged)
    /\ \A n \in Nodes : parent[n] # None => TypeOf(parent[n]) = TypeOf(n)

\* C10: n.depth is the number of parent hops from n to its root, n.height is
\* 0 without children and otherwise 1 + the maximum height of the children,
\* and the height of a node is the maximum depth, counted from that node, of
\* the nodes below it; for a root that is the maximum depth in its tree.
C10_DepthHeight ==
    \A n \in Nodes :
        /\ depth(parent, n) = IF parent[n] = None THEN 0 ELSE depth(parent, parent[n]) + 1
        /\ height(children, n) =
               IF Len(children[n]) = 0 THEN 0
               ELSE 1 + Max({height(children, children[n][i]) : i \in 1..Len(children[n])})
        /\ height(children, n) =
               Max({depth(parent, d) - depth(parent, n) : d \in Subtree(children, n)})
        /\ parent[n] = None =>
               height(children, n) = Max({depth(parent, d) : d \in {m \in Nodes : root(parent, m) = n}})

\* The chain root -> a -> b -> c has just been completed.
C10_Witness ==
    /\ last.op # "none" /\ ~Unchanged
    /\ \E r, c \in Nodes :
           /\ parent[r] = None /\ height(children, r) = 3
           /\ depth(parent, c) = 3 /\ root(parent, c) = r /\ height(children, c) = 0

----------------------------------------------------------------------------
\* The linkage the last call started from, as an operand of the operations.
PreState == [parent |-> pre.parent, children |-> pre.children,
             strict |-> pre.strict, log |-> <<>>]

\* C14: after del p.children (hooks no-ops) p.children is empty, every
\* former child has parent None and keeps its own children, the links of all
\* other nodes (p.parent included) are unchanged, and the linkage is the one
\* p.children = () produces.
C14_DeleteChildren ==
    last.op = "del_children"
        => LET p == last.node
               former == pre.children[p]
               assigned == children_setter(PreState, p, <<>>, "none")
           IN  /\ last.err = "none"
               /\ children[p] = <<>>
               /\ \A i \in 1..Len(former) :
                      /\ parent[former[i]] = None
                      /\ children[former[i]] = pre.children[former[i]]
               /\ parent[p] = pre.parent[p]
               /\ \A n \in Nodes :
                      (n # p /\ ~Occurs(n, former))
                          => (parent[n] = pre.parent[n] /\ children[n] = pre.children[n])
               /\ assigned.err = "none"
               /\ assigned.st.parent = parent
               /\ assigned.st.children = children

\* The children of a node that has a parent itself are deleted.
C14_Witness ==
    /\ last.op = "del_children"
    /\ Len(pre.children[last.node]) >= 2
    /\ pre.parent[last.node] # None

\* Positions of the calls of a hook in the log of the last call.
Calls(name) == {i \in 1..Len(hooks) : hooks[i].hook = name}
PerChildCalls == {i \in 1..Len(hooks) : hooks[i].hook \in Hooks}
AttachLinkedAfter ==
    /\ \A i \in Calls("_pre_attach") :
           /\ ~hooks[i].linked
           /\ i < Len(hooks)
           /\ hooks[i + 1] = [hooks[i] EXCEPT !.hook = "_post_attach", !.linked = TRUE]
    /\ \A i \in Calls("_post_attach") : i > 1 /\ hooks[i - 1].hook = "_pre_attach"

\* C19 as stated: in a successful p.children = s the batch pre hook of the
\* assignment fires once, before any per-child detach or attach hook, the
\* batch post hook once, after all per-child hooks, and each per-child attach
\* fires _pre_attach before and _post_attach after the child is linked.
C19_BatchHooksEncloseAll ==
    (ChildrenCall /\ last.err = "none")
        => /\ Cardinality(Calls("_pre_attach_children")) = 1
           /\ Cardinality(Calls("_post_attach_children")) = 1
           /\ \A i \in Calls("_pre_attach_children"), j \in PerChildCalls : i < j
           /\ \A i \in Calls("_post_attach_children"), j \in PerChildCalls : j < i
           /\ AttachLinkedAfter

\* C19 amended: the old children of p are detached first, between one call of
\* _pre_detach_children and one of _post_detach_children; then
\* _pre_attach_children fires once, before every per-child hook of the
\* elements of s, and _post_attach_children once, after all of them; each
\* element of s fires _pre_attach before and _post_attach after it is linked.
C19_BatchHooksOrder ==
    (ChildrenCall /\ last.err = "none")
        => LET p == last.node
               old == pre.children[p]
               n == Len(old)
           IN  /\ Len(hooks) >= 2 * n + 4
               /\ Calls("_pre_detach_children") = {1}
               /\ \A i \in 1..n :
                      /\ hooks[2 * i] = [hook |-> "_pre_detach", node |-> old[i],
                                         arg |-> p, linked |-> TRUE]
                      /\ hooks[2 * i + 1] = [hook |-> "_post_detach", node |-> old[i],
                                             arg |-> p, linked |-> FALSE]
               /\ Calls("_post_detach_children") = {2 * n + 2}
               /\ Calls("_pre_attach_children") = {2 * n + 3}
               /\ Calls("_post_attach_children") = {Len(hooks)}
               /\ \A i \in 1..Len(last.cs) :
                      Cardinality({j \in Calls("_pre_attach") :
                                       hooks[j].node = last.cs[i] /\ hooks[j].arg = p}) = 1
               /\ \A j \in Calls("_pre_attach") : Occurs(hooks[j].node, last.cs)
               /\ AttachLinkedAfter

\* p had a child, and the first new child is taken from another parent.
C19_Witness ==
    /\ ChildrenCall /\ last.err = "none"
    /\ Len(pre.children[last.node]) >= 1
    /\ Len(last.cs) >= 1
    /\ pre.parent[last.cs[1]] # None
    /\ pre.parent[last.cs[1]] # last.node

----------------------------------------------------------------------------
\* C16: when a new_tree call that started with the class-level strict_mode
\* flag True has finished, by returning or by raising, the flag is True again.
C16_StrictModeRestored ==
    (last.op = "new_tree" /\ pre.strict) => strict_mode

\* A new_tree call that raised while attaching a copy and left the flag False.
C16_FlagLeftFalse ==
    /\ last.op = "new_tree"
    /\ last.err = "LoopError"
    /\ pre.strict
    /\ ~strict_mode

\* A new_tree call that returned.
C16_ReturnedCall ==
    /\ last.op = "new_tree"
    /\ last.err = "none"
    /\ \E n \in Nodes : pre.children[n] # <<>> /\ last.node = n

----------------------------------------------------------------------------
\* The forest is well formed: x.parent is p exactly when x occurs in
\* p.children, it occurs there once, and no node is its own ancestor.
WellFormed(par, chl) ==
    /\ \A x \in DOMAIN par : \A p \in DOMAIN par :
           /\ (par[x] = p) <=> Occurs(x, chl[p])
           /\ Count(x, chl[p]) <= 1
    /\ \A x \in DOMAIN par : Up(par, x, Cardinality(DOMAIN par)) = None

\* C20: after any sequence of parent assignments, children assignments,
\* children deletions and new_tree calls, successful or failed, with the
\* strict_mode flag True or False, the forest is well formed and no
\* 'Tree is corrupt' assertion has failed.
C20_ForestWellFormed ==
    /\ WellFormed(parent, children)
    /\ last.err # "AssertionError"

\* A mutation that succeeded while the strict_mode flag was False, the flag
\* having been left so by a failed new_tree call.
C20_Witness ==
    /\ ~pre.strict
    /\ last.op \in {"set_parent", "set_children"}
    /\ last.err = "none"
    /\ ~Unchanged
    /\ \E n \in Nodes : Len(children[n]) >= 2

----------------------------------------------------------------------------
\* C13: new_tree(node, copy_info) with a copy_info that returns a new,
\* unattached node of the same class for every source node returns the copy
\* of node; the children of the copy of each node of the subtree are the
\* copies of that node's children in the same order; the returned root has
\* no parent; and the links of the source nodes are as they were.
C13_NewTreeIsomorphic ==
    (/\ last.op = "new_tree"
     /\ \A n \in Subtree(pre.children, last.node) :
            /\ Isolated(pre.parent, pre.children, last.cs[n])
            /\ last.cs[n] \notin Nodes
            /\ TypeOf(last.cs[n]) = TypeOf(n)
            /\ \A m \in Subtree(pre.children, last.node) :
                   last.cs[m] = last.cs[n] => m = n)
    => /\ last.err = "none"
       /\ last.value = last.cs[last.node]
       /\ parent[last.value] = None
       /\ \A n \in Subtree(pre.children, last.node) :
              /\ children[last.cs[n]] =
                     [i \in 1..Len(pre.children[n]) |-> last.cs[pre.children[n][i]]]
              /\ \A i \in 1..Len(pre.children[n]) :
                     parent[last.cs[pre.children[n][i]]] = last.cs[n]
       /\ \A n \in Nodes :
              /\ parent[n] = pre.parent[n]
              /\ children[n] = pre.children[n]
       /\ \A n \in Nodes \ Subtree(pre.children, last.node) :
              /\ parent[copy_of[n]] = pre.parent[copy_of[n]]
              /\ children[copy_of[n]] = pre.children[copy_of[n]]

\* A copy of a subtree whose root has a parent and two children.
C13_Witness ==
    /\ last.op = "new_tree"
    /\ last.err = "none"
    /\ pre.parent[last.node] # None
    /\ Len(pre.children[last.node]) >= 2
    /\ Len(children[last.value]) >= 2

----------------------------------------------------------------------------
\* Vocabulary of the iterator properties.
Out == it.out
Results == it.results

\* The walk has ended: the last pull did not yield.
Exhausted ==
    /\ it.phase = "iter"
    /\ Results # <<>>
    /\ Results[Len(Results)] # "yield"

NoPredRaises ==
    \A n \in DOMAIN children : it.obj.filter_[n] # "raise" /\ it.obj.stop[n] # "raise"

DefaultPreds ==
    \A n \in DOMAIN children : it.obj.filter_[n] = "T" /\ it.obj.stop[n] = "F"

\* The level-grouped walk with the arguments of the iterator.
LevelWalk ==
    Drain(NewIter(it.obj.node, it.obj.filter_, it.obj.stop, it.obj.maxlevel),
          children, "LevelOrderGroupIter", <<>>)

\* The zig-zag walk with the arguments of the iterator and no maxlevel.
UnboundedWalk ==
    Drain(NewIter(it.obj.node, it.obj.filter_, it.obj.stop, <<>>),
          children, "ZigZagGroupIter", <<>>)

\* Level of a node, the starting node (the root) being at level 1.
Level(n) == depth(parent, n) + 1

\* stop is true for n or for one of its ancestors.
UnderStop(n) ==
    LET path == iter_path_reverse(parent, n)
    IN  \E i \in 1..Len(path) : it.obj.stop[path[i]] = "T"

\* The nodes the walk reaches.
Walked ==
    {n \in DOMAIN children :
        /\ ~UnderStop(n)
        /\ it.obj.maxlevel = <<>> \/ Level(n) <= it.obj.maxlevel[1]}

ChildIndex(n) == CHOOSE i \in 1..Len(children[parent[n]]) : children[parent[n]][i] = n

\* a is to the left of b, both at the same level.
RECURSIVE LeftOf(_, _)
LeftOf(a, b) ==
    IF parent[a] = parent[b]
    THEN a # b /\ parent[a] # None /\ ChildIndex(a) < ChildIndex(b)
    ELSE LeftOf(parent[a], parent[b])

Range(s) == {s[i] : i \in 1..Len(s)}

----------------------------------------------------------------------------
\* C11: the groups ZigZagGroupIter yields are the groups of the level-grouped
\* walk with the same arguments, those at even index (levels 0, 2, ...)
\* unchanged and those at odd index reversed; when the walk has ended there is
\* one group for each level, the last level included when their number is odd,
\* and the walk ended as the level-grouped walk ends.
C11_ZigZagOfLevelGroups ==
    it.phase = "iter" =>
        /\ Len(Out) <= Len(LevelWalk.groups)
        /\ \A k \in 1..Len(Out) :
               Out[k] = IF k % 2 = 1 THEN LevelWalk.groups[k]
                        ELSE Reverse(LevelWalk.groups[k])
        /\ Exhausted =>
               /\ Len(Out) = Len(LevelWalk.groups)
               /\ Results[Len(Out) + 1] = LevelWalk.end
        /\ (Exhausted /\ children = DocChildren /\ DefaultPreds
                /\ it.obj.maxlevel = <<>>) =>
               Out = <<<<1>>, <<7, 2>>, <<3, 4, 8>>, <<9, 6, 5>>>>

\* A finished walk over three levels whose second level holds two nodes.
C11_Witness ==
    /\ Exhausted
    /\ Results[Len(Results)] = "stop"
    /\ Len(Out) = 3
    /\ Len(Out[2]) >= 2
    /\ Len(Out[3]) >= 1

----------------------------------------------------------------------------
\* C12: once a pull has signalled the end of the sequence, every later pull
\* signals it too and yields nothing, and the iterator is neither
\* uninitialized nor running again.
C12_ExhaustedStaysExhausted ==
    it.phase = "iter" =>
        \A i \in 1..Len(Results) :
            Results[i] = "stop" =>
                /\ \A j \in (i + 1)..Len(Results) : Results[j] = "stop"
                /\ it.obj.iter = "gen"
                /\ it.obj.gen.pc = "done"

\* Two elements, then the end of the sequence signalled three times.
C12_Witness ==
    /\ it.phase = "iter"
    /\ Len(Out) >= 2
    /\ Len(Results) >= Len(Out) + 3
    /\ \A i \in 1..Len(Results) : Results[i] = IF i <= Len(Out) THEN "yield" ELSE "stop"

----------------------------------------------------------------------------
\* C15: when filter_ or stop raises during a pull, every later pull signals
\* the end of the sequence, also when the predicate raised on the starting
\* node during the first pull.
C15_RaiseTerminates ==
    it.phase = "iter" =>
        \A i \in 1..Len(Results) :
            Results[i] = "raise" =>
                \A j \in (i + 1)..Len(Results) : Results[j] = "stop"

\* C15, the pulls after the generator exists: when a predicate raises inside
\* the generator, every later pull signals the end of the sequence.
C15_RaiseInGeneratorTerminates ==
    (it.phase = "iter" /\ it.obj.iter = "gen") =>
        \A i \in 1..Len(Results) :
            Results[i] = "raise" =>
                \A j \in (i + 1)..Len(Results) : Results[j] = "stop"

\* A predicate raised after an element was yielded, and two more pulls followed.
C15_RaisedInGenerator ==
    /\ it.phase = "iter"
    /\ Len(Out) >= 1
    /\ Len(Results) >= Len(Out) + 3
    /\ Results[Len(Out) + 1] = "raise"

----------------------------------------------------------------------------
\* C17: with predicates that do not raise, a finished walk has yielded one
\* group for every level that holds a node not under a stop (none when stop
\* is true for the starting node); the group of a level holds exactly the
\* nodes of the level that are not under a stop and pass filter_, so a node
\* rejected by filter_ is left out while its descendants are in the groups of
\* their levels; and a group is in left-to-right order at odd position and
\* in right-to-left order at even position, whatever filter_ rejects.
C17_StopAndFilter ==
    (Exhausted /\ NoPredRaises) =>
        /\ Len(Out) = IF Walked = {} THEN 0 ELSE Max({Level(n) : n \in Walked})
        /\ \A k \in 1..Len(Out) :
               /\ Range(Out[k]) = {n \in Walked : Level(n) = k /\ it.obj.filter_[n] = "T"}
               /\ \A i \in 1..Len(Out[k]) : \A j \in (i + 1)..Len(Out[k]) :
                      IF k % 2 = 1 THEN LeftOf(Out[k][i], Out[k][j])
                      ELSE LeftOf(Out[k][j], Out[k][i])
        /\ (children = DocChildren /\ it.obj.maxlevel = <<>>) =>
               /\ (it.obj.filter_ = DocFilter /\ it.obj.stop # DocStop) =>
                      Out = <<<<1>>, <<2>>, <<3, 4, 8>>, <<9, 5>>>>
               /\ (it.obj.filter_ # DocFilter /\ it.obj.stop = DocStop) =>
                      Out = <<<<1>>, <<7, 2>>, <<3, 8>>, <<9>>>>

\* The documented tree walked with both documented predicates: d is stopped
\* and has children, g is rejected by filter_ and its child i is yielded.
C17_Witness ==
    /\ Exhausted
    /\ children = DocChildren
    /\ it.obj.filter_ = DocFilter
    /\ it.obj.stop = DocStop
    /\ it.obj.maxlevel = <<>>
    /\ Out = <<<<1>>, <<2>>, <<3, 8>>, <<9>>>>

----------------------------------------------------------------------------
\* C18: with maxlevel = m no node of a level greater than m is yielded and at
\* most m groups are; with m < 1 nothing is yielded and no pull raises; and
\* when no predicate raises the groups of a finished walk are the first m
\* groups of the walk without maxlevel.
C18_MaxLevel ==
    (it.phase = "iter" /\ it.obj.maxlevel # <<>>) =>
        LET m == it.obj.maxlevel[1]
        IN  /\ \A k \in 1..Len(Out) : \A i \in 1..Len(Out[k]) : Level(Out[k][i]) <= m
            /\ m >= 1 => Len(Out) <= m
            /\ m < 1 => Out = <<>> /\ \A i \in 1..Len(Results) : Results[i] = "stop"
            /\ (Exhausted /\ NoPredRaises /\ m >= 1) =>
                   Out = SubSeq(UnboundedWalk.groups, 1,
                                IF m < Len(UnboundedWalk.groups) THEN m
                                ELSE Len(UnboundedWalk.groups))
            /\ (Exhausted /\ children = DocChildren /\ DefaultPreds /\ m = 3) =>
                   Out = <<<<1>>, <<7, 2>>, <<3, 4, 8>>>>

\* A finished walk with maxlevel 2 over a tree of more than two levels.
C18_Witness ==
    /\ Exhausted
    /\ NoPredRaises
    /\ it.obj.maxlevel = <<2>>
    /\ Len(Out) = 2
    /\ Len(UnboundedWalk.groups) > 2
====
